---- MODULE Spec2Model ----
(***************************************************************************)
(* The streaming INSERT writer of dumpling's export package.               *)
(*                                                                         *)
(* WriteInsert (src/v4/export/writer_util.go, lines 91-182) renders the    *)
(* rows of a table into one bytes.Buffer and hands the buffer's bytes to   *)
(* a writerPipe, whose goroutine Run (lines 41-62) writes them to the      *)
(* sink.  The model has two processes, the producer (WriteInsert) and the  *)
(* background writer (Run), the channels between them, and the memory the  *)
(* buffer and the queued chunks share: bf.Bytes() returns a slice of the   *)
(* buffer's backing array, not a copy.                                     *)
(*                                                                         *)
(* Text is a sequence of units.  A unit is one byte of the output, except  *)
(* that the words of the INSERT prefix, a special comment and a column     *)
(* literal are one unit each; lengths, the capacity and lengthLimit are    *)
(* counted in units.                                                       *)
(***************************************************************************)
EXTENDS Integers, Sequences, FiniteSets, TLC

\* ------------------------------------------------------------------ bounds
\* The chunk threshold of the model (the program's is 1048576).
LimitBound == 6
\* The streams of Init hold at most MaxRows rows in at most MaxGroups groups,
\* after at most MaxComments special comments.
MaxRows == 2
MaxGroups == 2
MaxComments == 1
\* The rows of the one long stream of Init: more than the queue holds.
ManyRows == 11

\* --------------------------------------------------------------- constants
lengthLimit == LimitBound
\* make(chan []byte, 8)
InputCap == 8
\* make(chan error, 1)
ErrCap == 1

VARIABLES
    tblIR,      \* the input: [comments: number of special comments, rows: the groups]
    pc,         \* WriteInsert's position
    bf,         \* the bytes.Buffer: [arr: its backing array, len, cap]
    mem,        \* the backing arrays allocated so far, each a sequence of units
    gi,         \* the row groups taken so far (fileRowIter.NextSQLRowIter)
    ri,         \* the rows of the current group consumed so far (fileRowIter.Next)
    counter,    \* the rows rendered so far
    ret,        \* what WriteInsert returns
    input,      \* wp.input: the queued chunks, each [arr, len, seq]
    inputClosed,\* close(wp.input) has happened
    closed,     \* close(b.closed) has happened
    errCh,      \* wp.errCh
    ctxDone,    \* cancel() has been called
    wgDone,     \* wg.Done() has been called
    rpc,        \* Run's position
    s,          \* the chunk Run has received and not yet written
    errOccurs,  \* Run's local errOccurs; in the mutex-based Run, err != nil
    sent,       \* the number of chunks sent into wp.input
    sink,       \* the calls of w.WriteString so far, each [seq, data, ok]
    call,       \* one call of a pure function: [fn, arg, out, done]
    lazy,       \* a LazyStringWriter and the goroutines writing to it
    bErr,       \* b.err of the mutex-based writerPipe
    bfpClosed,  \* close(bfp.input) has happened (mutex-based WriteInsert)
    errVar,     \* the variable err of the WriteBatch-based WriteInsert
    watch       \* the position of the goroutine watching batch.Error()

\* The state of WriteInsert and its pipe.
pipeVars == <<tblIR, pc, bf, mem, gi, ri, counter, ret, input, inputClosed, closed,
              errCh, ctxDone, wgDone, rpc, s, errOccurs, sent, sink>>

\* The state WriteInsert and its pipe leave alone.
restVars == <<call, lazy, bErr, bfpClosed, errVar, watch>>

vars == <<pipeVars, restVars>>

producerVars == <<pc, bf, mem, gi, ri, counter, ret>>
runVars == <<rpc, s, errOccurs, sink>>

\* ------------------------------------------------------------------- text
Digits == <<"0", "1", "2", "3", "4", "5", "6", "7", "8", "9">>

Digit(k) == Digits[(k % 10) + 1]

RowKinds == {"short", "long"}

\* The column literals of the row of kind k that is the n-th row of the stream.
RowCols(k, n) ==
    CASE k = "short" -> <<Digit(n)>>
      [] k = "long" -> [i \in 1..lengthLimit |-> Digit(n)]
      [] k = "same" -> [i \in 1..lengthLimit |-> "x"]

RECURSIVE JoinCols(_)
JoinCols(cols) ==
    IF Len(cols) = 0 THEN <<>>
    ELSE IF Len(cols) = 1 THEN <<cols[1]>>
    ELSE <<cols[1], ",">> \o JoinCols(Tail(cols))

\* row.WriteToBuffer: "(", the column literals separated by ",", ")".
RowText(cols) == <<"(">> \o JoinCols(cols) \o <<")">>

\* specCmtIter.Next() followed by '\n'
CommentText == <<"comment", "\n">>

\* fmt.Sprintf("INSERT INTO %s VALUES\n", wrapBackTicks(tblIR.TableName()))
insertStatementPrefix == <<"INSERT INTO", "t", "VALUES", "\n">>

\* ------------------------------------------------------ bytes.Buffer, memory
\* The array a with data written at offset off (0-based); what lay beyond stays.
Overwrite(a, off, data) ==
    [i \in 1..(IF Len(a) > off + Len(data) THEN Len(a) ELSE off + Len(data)) |->
        IF i > off /\ i <= off + Len(data) THEN data[i - off] ELSE a[i]]

\* bf.WriteString / bf.WriteByte: in place while the capacity suffices, else into
\* a new array of capacity 2*cap + n that receives a copy of the buffer's bytes.
BufWrite(b, m, data) ==
    IF b.len + Len(data) <= b.cap
    THEN [bf |-> [b EXCEPT !.len = @ + Len(data)],
          mem |-> [m EXCEPT ![b.arr] = Overwrite(@, b.len, data)]]
    ELSE [bf |-> [arr |-> Len(m) + 1, len |-> b.len + Len(data),
                  cap |-> 2 * b.cap + Len(data)],
          mem |-> Append(m, SubSeq(m[b.arr], 1, b.len) \o data)]

\* Bytes cut at the threshold: a chunk of at most lengthLimit units.
BytesUpToLimit(b) ==
    [arr |-> b.arr, len |-> IF b.len > lengthLimit THEN lengthLimit ELSE b.len]

\* bf.Bytes(): a slice of the backing array, no copy.
Bytes(b) == [arr |-> b.arr, len |-> b.len]

\* bf.Reset(): the length becomes 0, the backing array is kept.
Reset(b) == [b EXCEPT !.len = 0]

\* The units a slice denotes in memory m.
Deref(m, c) == SubSeq(m[c.arr], 1, c.len)

\* ------------------------------------------------------------------ input
RECURSIVE Total(_)
Total(groups) == IF groups = <<>> THEN 0 ELSE Len(Head(groups)) + Total(Tail(groups))

\* The non-empty row groups of at most n rows.
Groups(n) == UNION {[1..k -> RowKinds] : k \in 1..n}

\* The row streams of at most MaxRows rows: a row group is never empty.
Streams ==
    {g \in UNION {[1..k -> Groups(MaxRows)] : k \in 0..MaxGroups} : Total(g) <= MaxRows}

\* One group of ManyRows equal rows, each at least lengthLimit long.
LongStream == <<[i \in 1..ManyRows |-> "same"]>>

Inputs ==
    {[comments |-> c, rows |-> g] : c \in 0..MaxComments, g \in Streams}
        \cup {[comments |-> 0, rows |-> LongStream]}

\* The emptiness check left out.
RowsAlwaysHasNext(t) == TRUE

\* tblIR.Rows().HasNext(): the stream holds a row.
RowsHasNext(t) == t.rows # <<>>

\* fileRowIter.HasNextSQLRowIter(): a further row group follows.
HasNextSQLRowIter(t, g) == g < Len(t.rows)

\* fileRowIter.HasNext() inside a group: the group holds a further row.
HasNext(t, g, r) == r < Len(t.rows[g])

\* ------------------------------------------------- the single-shot rendering
RECURSIVE RenderComments(_)
RenderComments(n) == IF n = 0 THEN <<>> ELSE CommentText \o RenderComments(n - 1)

\* The rows r.. of group grp, the first of them being the n-th row of the stream.
RECURSIVE RenderRows(_, _, _)
RenderRows(grp, r, n) ==
    IF r > Len(grp) THEN <<>>
    ELSE RowText(RowCols(grp[r], n))
            \o (IF r < Len(grp) THEN <<",", "\n">> ELSE <<";", "\n">>)
            \o RenderRows(grp, r + 1, n + 1)

RECURSIVE RenderGroups(_, _, _)
RenderGroups(groups, g, n) ==
    IF g > Len(groups) THEN <<>>
    ELSE insertStatementPrefix \o RenderRows(groups[g], 1, n)
            \o RenderGroups(groups, g + 1, n + Len(groups[g]))

Render(t) == RenderComments(t.comments) \o RenderGroups(t.rows, 1, 1)

\* ------------------------------------------------------------- writerPipe
NoChunk == [arr |-> 0, len |-> 0, seq |-> 0]

\* Error that never finds the recorded error.
ErrorDropped(ch) == [err |-> "nil", errCh |-> ch]

\* wp.Error(): a non-blocking receive from errCh.
Error(ch) ==
    IF ch # <<>> THEN [err |-> Head(ch), errCh |-> Tail(ch)]
    ELSE [err |-> "nil", errCh |-> ch]

\* The text the sink has accepted, in write order.
RECURSIVE Written(_)
Written(calls) ==
    IF calls = <<>> THEN <<>>
    ELSE (IF Head(calls).ok THEN Head(calls).data ELSE <<>>) \o Written(Tail(calls))

\* No pure function is being called.
NoCall == [fn |-> "none", arg |-> <<>>, out |-> <<>>, done |-> TRUE]

\* No LazyStringWriter is in use.
NoLazy == [once |-> "none"]

CallIdle == call = NoCall
LazyIdle == lazy = NoLazy
MutexIdle == bErr = "nil" /\ bfpClosed = FALSE
BatchIdle == errVar = "nil" /\ watch = "none"

RestIdle == CallIdle /\ LazyIdle /\ MutexIdle /\ BatchIdle

Init ==
    /\ RestIdle
    /\ tblIR \in Inputs
    /\ pc = "start"
    /\ bf = [arr |-> 0, len |-> 0, cap |-> 0]
    /\ mem = <<>>
    /\ gi = 0
    /\ ri = 0
    /\ counter = 0
    /\ ret = "nil"
    /\ input = <<>>
    /\ inputClosed = FALSE
    /\ closed = FALSE
    /\ errCh = <<>>
    /\ ctxDone = FALSE
    /\ wgDone = FALSE
    /\ rpc = "idle"
    /\ s = NoChunk
    /\ errOccurs = FALSE
    /\ sent = 0
    /\ sink = <<>>

\* WriteInsert has not been called.
PipeIdle ==
    /\ tblIR = [comments |-> 0, rows |-> <<>>]
    /\ pc = "none"
    /\ bf = [arr |-> 0, len |-> 0, cap |-> 0]
    /\ mem = <<>>
    /\ gi = 0
    /\ ri = 0
    /\ counter = 0
    /\ ret = "nil"
    /\ input = <<>>
    /\ inputClosed = FALSE
    /\ closed = FALSE
    /\ errCh = <<>>
    /\ ctxDone = FALSE
    /\ wgDone = FALSE
    /\ rpc = "idle"
    /\ s = NoChunk
    /\ errOccurs = FALSE
    /\ sent = 0
    /\ sink = <<>>

\* ------------------------------------------------------------ WriteInsert
\* bf.WriteString(specCmtIter.Next()); bf.WriteByte('\n'), for each of n comments.
RECURSIVE WriteComments(_, _, _)
WriteComments(b, m, n) ==
    IF n = 0 THEN [bf |-> b, mem |-> m]
    ELSE LET w == BufWrite(b, m, CommentText)
         IN  WriteComments(w.bf, w.mem, n - 1)

\* A flush after every row.
NeedFlushAlways(n) == TRUE

\* if bf.Len() >= lengthLimit
NeedFlush(n) == n >= lengthLimit

\* The separator after the r-th row of group g.
Separator(t, g, r) == IF HasNext(t, g, r) THEN <<",", "\n">> ELSE <<";", "\n">>

\* The row loop going on whatever wp.Error() returned.
AfterPollIgnored(err) == "row"

\* The row loop closing the queue when wp.Error() returned an error.
AfterPollClose(err) == IF err # "nil" THEN "close" ELSE "row"

\* Where the row loop goes after wp.Error() returned err.
AfterPoll(err) == IF err # "nil" THEN "defer" ELSE "row"

\* The deferred function without wg.Wait().
NoWait == TRUE

\* wg.Wait() returns once wg.Done() has been called.
WaitReturns == wgDone

\* Lines 92-121: an empty stream returns at once; otherwise the buffer is grown to
\* lengthLimit, the pipe is made, Run is started and the special comments are
\* written into the buffer.
Start ==
    /\ pc = "start"
    /\ IF ~RowsHasNext(tblIR)
       THEN /\ pc' = "returned"
            /\ ret' = "nil"
            /\ UNCHANGED <<bf, mem, rpc>>
       ELSE LET w == WriteComments([arr |-> 1, len |-> 0, cap |-> lengthLimit],
                                   <<<<>>>>, tblIR.comments)
            IN  /\ bf' = w.bf
                /\ mem' = w.mem
                /\ rpc' = "select"
                /\ pc' = "group"
                /\ ret' = ret
    /\ UNCHANGED <<restVars, tblIR, gi, ri, counter, input, inputClosed, closed, errCh,
                   ctxDone, wgDone, s, errOccurs, sent, sink>>

\* Lines 141-144: the head of the group loop.
Group ==
    /\ pc = "group"
    /\ IF HasNextSQLRowIter(tblIR, gi)
       THEN LET w == BufWrite(bf, mem, insertStatementPrefix)
            IN  /\ bf' = w.bf
                /\ mem' = w.mem
                /\ gi' = gi + 1
                /\ ri' = 0
                /\ pc' = "row"
       ELSE /\ pc' = "final"
            /\ UNCHANGED <<bf, mem, gi, ri>>
    /\ UNCHANGED <<restVars, tblIR, counter, ret, input, inputClosed, closed, errCh,
                   ctxDone, wgDone, sent>>
    /\ UNCHANGED runVars

\* Lines 145-152: the head of the row loop, Decode and row.WriteToBuffer.
Row ==
    /\ pc = "row"
    /\ IF HasNext(tblIR, gi, ri)
       THEN \E ok \in BOOLEAN :
               IF ok
               THEN LET w == BufWrite(bf, mem,
                                 RowText(RowCols(tblIR.rows[gi][ri + 1], counter + 1)))
                    IN  /\ bf' = w.bf
                        /\ mem' = w.mem
                        /\ counter' = counter + 1
                        /\ pc' = "check"
                        /\ ret' = ret
               ELSE /\ ret' = "decodeErr"
                    /\ pc' = "defer"
                    /\ UNCHANGED <<bf, mem, counter>>
       ELSE /\ pc' = "group"
            /\ UNCHANGED <<bf, mem, counter, ret>>
    /\ UNCHANGED <<restVars, tblIR, gi, ri, input, inputClosed, closed, errCh,
                   ctxDone, wgDone, sent>>
    /\ UNCHANGED runVars

\* Line 154.
Check ==
    /\ pc = "check"
    /\ pc' = IF NeedFlush(bf.len) THEN "send" ELSE "next"
    /\ UNCHANGED <<restVars, tblIR, bf, mem, gi, ri, counter, ret, input, inputClosed, closed,
                   errCh, ctxDone, wgDone, sent>>
    /\ UNCHANGED runVars

\* A send that never blocks.
CanSendAlways(q) == TRUE

\* A send into the buffered channel completes only while it holds fewer than
\* its capacity.
CanSend(q) == Len(q) < InputCap

\* wp.input <- bf.Bytes(); bf.Reset().  The send blocks while the queue is full.
SendChunk(next) ==
    /\ CanSend(input)
    /\ input' = Append(input, [arr |-> Bytes(bf).arr, len |-> Bytes(bf).len,
                               seq |-> sent + 1])
    /\ sent' = sent + 1
    /\ bf' = Reset(bf)
    /\ pc' = next
    /\ UNCHANGED <<restVars, tblIR, mem, gi, ri, counter, ret, inputClosed, closed, errCh,
                   ctxDone, wgDone>>
    /\ UNCHANGED runVars

\* Lines 155-156.
Send ==
    /\ pc = "send"
    /\ SendChunk("next")

\* Lines 159-164: fileRowIter.Next() and the separator.
NextRow ==
    /\ pc = "next"
    /\ LET w == BufWrite(bf, mem, Separator(tblIR, gi, ri + 1))
       IN  /\ bf' = w.bf
           /\ mem' = w.mem
    /\ ri' = ri + 1
    /\ pc' = "poll"
    /\ UNCHANGED <<restVars, tblIR, gi, counter, ret, input, inputClosed, closed, errCh,
                   ctxDone, wgDone, sent>>
    /\ UNCHANGED runVars

\* Lines 166-168.
Poll ==
    /\ pc = "poll"
    /\ LET e == Error(errCh)
       IN  /\ errCh' = e.errCh
           /\ ret' = e.err
           /\ pc' = AfterPoll(e.err)
    /\ UNCHANGED <<restVars, tblIR, bf, mem, gi, ri, counter, input, inputClosed, closed,
                   ctxDone, wgDone, sent>>
    /\ UNCHANGED runVars

\* Line 174.
Final ==
    /\ pc = "final"
    /\ pc' = IF bf.len > 0 THEN "sendLast" ELSE "close"
    /\ UNCHANGED <<restVars, tblIR, bf, mem, gi, ri, counter, ret, input, inputClosed, closed,
                   errCh, ctxDone, wgDone, sent>>
    /\ UNCHANGED runVars

\* Lines 175-177.
SendLast ==
    /\ pc = "sendLast"
    /\ SendChunk("close")

\* Line 179.
Close ==
    /\ pc = "close"
    /\ inputClosed' = TRUE
    /\ pc' = "wait"
    /\ UNCHANGED <<restVars, tblIR, bf, mem, gi, ri, counter, ret, input, closed, errCh,
                   ctxDone, wgDone, sent>>
    /\ UNCHANGED runVars

\* Line 180: <-wp.closed.
Wait ==
    /\ pc = "wait"
    /\ closed
    /\ pc' = "result"
    /\ UNCHANGED <<restVars, tblIR, bf, mem, gi, ri, counter, ret, input, inputClosed, closed,
                   errCh, ctxDone, wgDone, sent>>
    /\ UNCHANGED runVars

\* Line 181: return wp.Error().
Result ==
    /\ pc = "result"
    /\ LET e == Error(errCh)
       IN  /\ errCh' = e.errCh
           /\ ret' = e.err
    /\ pc' = "defer"
    /\ UNCHANGED <<restVars, tblIR, bf, mem, gi, ri, counter, input, inputClosed, closed,
                   ctxDone, wgDone, sent>>
    /\ UNCHANGED runVars

\* Line 113: the deferred cancel().
Defer ==
    /\ pc = "defer"
    /\ ctxDone' = TRUE
    /\ pc' = "join"
    /\ UNCHANGED <<restVars, tblIR, bf, mem, gi, ri, counter, ret, input, inputClosed, closed,
                   errCh, wgDone, sent>>
    /\ UNCHANGED runVars

\* Line 114: the deferred wg.Wait(), after which WriteInsert has returned.
Join ==
    /\ pc = "join"
    /\ WaitReturns
    /\ pc' = "returned"
    /\ UNCHANGED <<restVars, tblIR, bf, mem, gi, ri, counter, ret, input, inputClosed, closed,
                   errCh, ctxDone, wgDone, sent>>
    /\ UNCHANGED runVars

\* --------------------------------------------------------- writerPipe.Run
\* A receive that takes the newest chunk.
RecvNewest(q) == [s |-> q[Len(q)], rest |-> SubSeq(q, 1, Len(q) - 1)]

\* s, ok := <-b.input on a queue that holds a chunk: the oldest one.
Recv(q) == [s |-> Head(q), rest |-> Tail(q)]

\* The errOccurs check left out.
NeverSkip(e) == FALSE

\* if errOccurs { continue }
SkipWrite(e) == e

\* Run returning on its first write error instead of draining the queue.
StopOnError == "return"

\* After a failed write the loop goes on: later chunks are received and dropped.
AfterError == "select"

\* Lines 46-52, a chunk received.
RunRecv ==
    /\ rpc = "select"
    /\ input # <<>>
    /\ input' = Recv(input).rest
    /\ IF SkipWrite(errOccurs)
       THEN UNCHANGED <<rpc, s>>
       ELSE /\ s' = Recv(input).s
            /\ rpc' = "write"
    /\ UNCHANGED <<restVars, tblIR, inputClosed, closed, errCh, ctxDone, wgDone, errOccurs,
                   sent, sink>>
    /\ UNCHANGED producerVars

\* Lines 46-49, the queue closed and drained.
RunRecvClosed ==
    /\ rpc = "select"
    /\ input = <<>>
    /\ inputClosed
    /\ rpc' = "return"
    /\ UNCHANGED <<restVars, tblIR, input, inputClosed, closed, errCh, ctxDone, wgDone, s,
                   errOccurs, sent, sink>>
    /\ UNCHANGED producerVars

\* Lines 58-59.
RunCtxDone ==
    /\ rpc = "select"
    /\ ctxDone
    /\ rpc' = "return"
    /\ UNCHANGED <<restVars, tblIR, input, inputClosed, closed, errCh, ctxDone, wgDone, s,
                   errOccurs, sent, sink>>
    /\ UNCHANGED producerVars

\* Lines 53-55: write(b.w, bytes2str(s)) reads the memory s refers to as it is
\* when the write runs; the sink accepts the text or fails.
RunWrite ==
    /\ rpc = "write"
    /\ \E ok \in BOOLEAN :
          /\ sink' = Append(sink, [seq |-> s.seq, data |-> Deref(mem, s), ok |-> ok])
          /\ errOccurs' = (errOccurs \/ ~ok)
          /\ rpc' = IF ok THEN "select" ELSE "sendErr"
    /\ s' = NoChunk
    /\ UNCHANGED <<restVars, tblIR, input, inputClosed, closed, errCh, ctxDone, wgDone, sent>>
    /\ UNCHANGED producerVars

\* Line 56: b.errCh <- err, which blocks while errCh is full.
RunSendErr ==
    /\ rpc = "sendErr"
    /\ Len(errCh) < ErrCap
    /\ errCh' = Append(errCh, "writeErr")
    /\ rpc' = AfterError
    /\ UNCHANGED <<restVars, tblIR, input, inputClosed, closed, ctxDone, wgDone, s, errOccurs,
                   sent, sink>>
    /\ UNCHANGED producerVars

\* Line 42: the deferred close(b.closed) as Run returns.
RunReturn ==
    /\ rpc = "return"
    /\ closed' = TRUE
    /\ rpc' = "done"
    /\ UNCHANGED <<restVars, tblIR, input, inputClosed, errCh, ctxDone, wgDone, s, errOccurs,
                   sent, sink>>
    /\ UNCHANGED producerVars

\* Line 110: wg.Done(), the end of the goroutine.
WgDone ==
    /\ rpc = "done"
    /\ wgDone' = TRUE
    /\ rpc' = "exited"
    /\ UNCHANGED <<restVars, tblIR, input, inputClosed, closed, errCh, ctxDone, s, errOccurs,
                   sent, sink>>
    /\ UNCHANGED producerVars

Producer ==
    \/ Start \/ Group \/ Row \/ Check \/ Send \/ NextRow \/ Poll
    \/ Final \/ SendLast \/ Close \/ Wait \/ Result \/ Defer \/ Join

Runner ==
    \/ RunRecv \/ RunRecvClosed \/ RunCtxDone \/ RunWrite \/ RunSendErr
    \/ RunReturn \/ WgDone

Next == Producer \/ Runner

Spec == Init /\ [][Next]_vars

\* The Go scheduler runs every goroutine that can take a step.
FairSpec == Spec /\ WF_vars(Producer) /\ WF_vars(Runner)

\* ------------------------------------------------------------------ claims
\* The chunks Run has still to write: those queued and the one it has received.
Outstanding ==
    {input[i] : i \in 1..Len(input)} \cup (IF rpc = "write" THEN {s} ELSE {})

Returned == pc = "returned"

\* C1: when WriteInsert returns success on a non-empty stream, the text the sink
\* received, in write order, is the single-shot rendering of the input.
C1_ChunkingTransparent ==
    (Returned /\ RowsHasNext(tblIR) /\ ret = "nil") => Written(sink) = Render(tblIR)

\* C2: while a chunk is queued or being written, no step changes the memory the
\* chunk refers to.
C2_NoWriteWhileAliased ==
    [][\A c \in Outstanding : Deref(mem', c) = Deref(mem, c)]_vars

\* C3: if a sink write failed and no decode failed, WriteInsert returns the write
\* error, never success.
C3_WriteErrorReturned ==
    (Returned /\ errOccurs /\ ret # "decodeErr") => ret = "writeErr"

\* A write error that only the final Error(), after close and drain, observed.
C3_Witness == Returned /\ errOccurs /\ inputClosed /\ ret = "writeErr"

\* C4: when WriteInsert has returned after starting the pipe, Run has terminated.
C4_RunJoined == (Returned /\ tblIR.rows # <<>>) => rpc = "exited"

\* A return on a decode error, the queue never closed, with Run terminated.
C4_Witness == Returned /\ ret = "decodeErr" /\ ~inputClosed /\ rpc = "exited"

\* C5: WriteInsert eventually returns.
C5_Terminates == <>Returned

\* The producer blocked sending into the full queue after Run's write error.
C5_Witness == pc = "send" /\ Len(input) = InputCap /\ errOccurs

\* C6 as claimed: once a decode has failed or Run has met its first write error, no
\* further chunk is sent.
C6_NoSendAfterError ==
    [][(errOccurs \/ ret = "decodeErr") => sent' = sent]_vars

\* C6 as amended: once a decode has failed or wp.Error() has handed the write error
\* to WriteInsert, no further chunk is sent.
C6_NoSendAfterObservedError ==
    [][ret # "nil" => sent' = sent]_vars

\* The poll has returned the write error with rows of the group still to come.
C6_Witness ==
    /\ Returned /\ ret = "writeErr" /\ ~inputClosed
    /\ gi > 0 /\ HasNext(tblIR, gi, ri)

\* C7: a failed sink write is the last sink write.
C7_NoWriteAfterError ==
    \A i \in 1..Len(sink) : ~sink[i].ok => i = Len(sink)

\* After the failed write Run has received a further chunk and dropped it.
C7_Witness ==
    /\ errOccurs /\ input = <<>> /\ rpc \in {"select", "exited"}
    /\ sent > Len(sink)

\* C8: the chunks are written in the order they were sent, none twice.
C8_FifoWrites ==
    \A i, j \in 1..Len(sink) : i < j => sink[i].seq < sink[j].seq

\* Three chunks written while further ones were queued behind them.
C8_Witness == Len(sink) >= 3 /\ Len(input) >= 2

\* C9: on an empty stream WriteInsert returns success, the sink receives no
\* write and Run is never started.
C9_EmptyStream ==
    (Returned /\ tblIR.rows = <<>>) => (ret = "nil" /\ sink = <<>> /\ rpc = "idle")

\* An empty stream with a special comment, returned.
C9_Witness == Returned /\ tblIR.rows = <<>> /\ tblIR.comments > 0

\* The text holds whole rows only: every "(" is closed by a ")" within the text,
\* and no ")" comes before its "(" (d is the number of rows open so far).
RECURSIVE WholeRows(_, _)
WholeRows(text, d) ==
    IF text = <<>> THEN d = 0
    ELSE IF Head(text) = "(" THEN d = 0 /\ WholeRows(Tail(text), 1)
    ELSE IF Head(text) = ")" THEN d = 1 /\ WholeRows(Tail(text), 0)
    ELSE WholeRows(Tail(text), d)

\* C10: every chunk sent into the pipe begins and ends outside a row literal.
C10_RowsNeverSplit ==
    [][sent' > sent => WholeRows(Deref(mem', input'[Len(input')]), 0)]_vars

\* A chunk just sent whose last row alone is longer than the threshold.
C10_Witness ==
    /\ pc = "next" /\ input # <<>> /\ input[Len(input)].seq = sent
    /\ tblIR.rows[gi][ri + 1] = "long"
    /\ Len(RowText(RowCols("long", counter))) > lengthLimit

LoopFinished ==
    /\ gi = Len(tblIR.rows)
    /\ gi > 0
    /\ ri = Len(tblIR.rows[gi])

StartsWith(text, pre) ==
    Len(text) >= Len(pre) /\ SubSeq(text, 1, Len(pre)) = pre

Drop(text, n) == SubSeq(text, n + 1, Len(text))

\* The units after the row literal that text begins with, or <<"bad">> when text
\* does not begin with "(", units other than parentheses, ")".
RECURSIVE AfterRowBody(_)
AfterRowBody(text) ==
    IF text = <<>> \/ Head(text) = "(" THEN <<"bad">>
    ELSE IF Head(text) = ")" THEN Tail(text)
    ELSE AfterRowBody(Tail(text))

AfterRow(text) ==
    IF text = <<>> \/ Head(text) # "(" THEN <<"bad">> ELSE AfterRowBody(Tail(text))

\* text is rows separated by ",\n", the last followed by ";\n", then statements.
RECURSIVE RowsThenStatements(_)
RowsThenStatements(text) ==
    LET rest == AfterRow(text)
    IN  IF rest = <<"bad">> THEN FALSE
        ELSE IF StartsWith(rest, <<",", "\n">>) THEN RowsThenStatements(Drop(rest, 2))
        ELSE IF StartsWith(rest, <<";", "\n">>)
        THEN \/ Drop(rest, 2) = <<>>
             \/ /\ StartsWith(Drop(rest, 2), insertStatementPrefix)
                /\ RowsThenStatements(Drop(rest, 2 + Len(insertStatementPrefix)))
        ELSE FALSE

\* text is comment lines followed by complete INSERT statements.
RECURSIVE CompleteStatements(_)
CompleteStatements(text) ==
    IF StartsWith(text, CommentText) THEN CompleteStatements(Drop(text, Len(CommentText)))
    ELSE \/ text = <<>>
         \/ /\ StartsWith(text, insertStatementPrefix)
            /\ RowsThenStatements(Drop(text, Len(insertStatementPrefix)))

\* C19: when WriteInsert returns success, the text the sink received is the special
\* comments followed by complete statements: each an INSERT prefix, at least one
\* row, ",\n" between rows and ";\n" after the last.
C19_CompleteStatements ==
    (Returned /\ tblIR.rows # <<>> /\ ret = "nil") => CompleteStatements(Written(sink))

\* ================================================================ Escaper
\* Bytes are written as one-character strings; NUL and SUB (0x1A) by name.
NUL == "NUL"
SUB == "SUB"
BackSlash == "\\"
quotationMark == "'"
DoubleQuote == "\""

\* The strings of Init hold at most MaxStrLen bytes.
MaxStrLen == 3

\* The bytes of the strings of Init: the seven bytes the backslash dialect
\* escapes, a plain byte, and two bytes that are also escape letters.
EscBytes == {NUL, "\n", "\r", BackSlash, quotationMark, DoubleQuote, SUB, "a", "n", "Z"}

EscStrings == UNION {[1..k -> EscBytes] : k \in 0..MaxStrLen}

\* No escape: the value 0 of the variable escape.
NoEscape == "none"

\* The switch of backslashEscape.Escape without its last case.
BackslashCodeNoSub(c) ==
    CASE c = NUL -> "0"
      [] c = "\n" -> "n"
      [] c = "\r" -> "r"
      [] c = BackSlash -> BackSlash
      [] c = quotationMark -> quotationMark
      [] c = DoubleQuote -> DoubleQuote
      [] OTHER -> NoEscape

\* The switch of backslashEscape.Escape.
BackslashCode(c) ==
    CASE c = NUL -> "0"
      [] c = "\n" -> "n"
      [] c = "\r" -> "r"
      [] c = BackSlash -> BackSlash
      [] c = quotationMark -> quotationMark
      [] c = DoubleQuote -> DoubleQuote
      [] c = SUB -> "Z"
      [] OTHER -> NoEscape

\* The loop of backslashEscape.Escape from byte i (1-based) on, last bytes of s
\* being already written, and the writes after the loop.
RECURSIVE BackslashLoop(_, _, _, _)
BackslashLoop(str, i, last, buf) ==
    IF i > Len(str)
    THEN IF last = 0 THEN buf \o str
         ELSE IF last < Len(str) THEN buf \o SubSeq(str, last + 1, Len(str))
         ELSE buf
    ELSE IF BackslashCode(str[i]) # NoEscape
         THEN BackslashLoop(str, i + 1, i,
                  buf \o SubSeq(str, last + 1, i - 1)
                      \o <<BackSlash, BackslashCode(str[i])>>)
         ELSE BackslashLoop(str, i + 1, last, buf)

\* backslashEscape.Escape(s, bf): the content of bf afterwards.
BackslashEscape(str, buf) == BackslashLoop(str, 1, 0, buf)

\* The switch of noBackslashEscape.Escape.
NoBackslashCode(c) ==
    CASE c = BackSlash -> BackSlash
      [] c = quotationMark -> quotationMark
      [] OTHER -> NoEscape

\* The loop of noBackslashEscape.Escape and the writes after it.
RECURSIVE NoBackslashLoop(_, _, _, _)
NoBackslashLoop(str, i, last, buf) ==
    IF i > Len(str)
    THEN IF last = 0 THEN buf \o str
         ELSE IF last < Len(str) THEN buf \o SubSeq(str, last + 1, Len(str))
         ELSE buf
    ELSE IF NoBackslashCode(str[i]) # NoEscape
         THEN NoBackslashLoop(str, i + 1, i,
                  buf \o SubSeq(str, last + 1, i) \o <<NoBackslashCode(str[i])>>)
         ELSE NoBackslashLoop(str, i + 1, last, buf)

\* noBackslashEscape.Escape(s, bf): the content of bf afterwards.
NoBackslashEscape(str, buf) == NoBackslashLoop(str, 1, 0, buf)

\* The buffers Escape appends to: empty, or holding the opening quotation mark.
EscBuffers == {<<>>, <<quotationMark>>}

EscapeCalls ==
    {[fn |-> f, arg |-> [s |-> str, bf |-> b], out |-> <<>>, done |-> FALSE] :
        f \in {"backslashEscape", "noBackslashEscape"}, str \in EscStrings,
        b \in EscBuffers}

\* One call of backslashEscape.Escape.
Escape ==
    /\ call.fn = "backslashEscape"
    /\ ~call.done
    /\ call' = [call EXCEPT !.out = BackslashEscape(call.arg.s, call.arg.bf),
                            !.done = TRUE]
    /\ UNCHANGED <<pipeVars, lazy, bErr, bfpClosed, errVar, watch>>

\* One call of noBackslashEscape.Escape.
EscapeNoBackslash ==
    /\ call.fn = "noBackslashEscape"
    /\ ~call.done
    /\ call' = [call EXCEPT !.out = NoBackslashEscape(call.arg.s, call.arg.bf),
                            !.done = TRUE]
    /\ UNCHANGED <<pipeVars, lazy, bErr, bfpClosed, errVar, watch>>

\* ========================================================== wrapBackTicks
\* The backtick character, written by name.
BackTick == "BQ"

\* The identifiers of Init hold at most MaxIdentLen bytes.
MaxIdentLen == 3

Identifiers == UNION {[1..k -> {BackTick, "a"}] : k \in 0..MaxIdentLen}

\* strings.HasPrefix(str, c) and strings.HasSuffix(str, c) for a one-byte c.
HasPrefix(str, c) == Len(str) >= 1 /\ str[1] = c
HasSuffix(str, c) == Len(str) >= 1 /\ str[Len(str)] = c

\* fmt.Sprintf("%s%s%s", wrapper, str, wrapper)
wrapStringWith(str, wrapper) == <<wrapper>> \o str \o <<wrapper>>

wrapBackTicks(identifier) ==
    IF ~HasPrefix(identifier, BackTick) /\ ~HasSuffix(identifier, BackTick)
    THEN wrapStringWith(identifier, BackTick)
    ELSE identifier

WrapCalls ==
    {[fn |-> "wrapBackTicks", arg |-> id, out |-> <<>>, done |-> FALSE] :
        id \in Identifiers}

\* One call of wrapBackTicks.
WrapBackTicks ==
    /\ call.fn = "wrapBackTicks"
    /\ ~call.done
    /\ call' = [call EXCEPT !.out = wrapBackTicks(call.arg), !.done = TRUE]
    /\ UNCHANGED <<pipeVars, lazy, bErr, bfpClosed, errVar, watch>>

\* ============================================================== Row Image
\* The rows of Init hold at most MaxCols columns.
MaxCols == 2

NullText == <<"N", "U", "L", "L">>

HexDigits == <<"0", "1", "2", "3", "4", "5", "6", "7", "8", "9",
               "a", "b", "c", "d", "e", "f">>

\* %x of a byte slice: two lowercase hex digits per byte.
RECURSIVE Hex(_)
Hex(bs) ==
    IF bs = <<>> THEN <<>>
    ELSE <<HexDigits[(Head(bs) \div 16) + 1], HexDigits[(Head(bs) % 16) + 1]>>
            \o Hex(Tail(bs))

\* strings.ReplaceAll(src, old, new) for a one-byte old.
RECURSIVE ReplaceAll(_, _, _)
ReplaceAll(src, old, new) ==
    IF src = <<>> THEN <<>>
    ELSE (IF Head(src) = old THEN new ELSE <<Head(src)>>)
            \o ReplaceAll(Tail(src), old, new)

\* escape(src) of sql_type.go, lines 256-259.
escape(src) ==
    ReplaceAll(ReplaceAll(src, quotationMark, <<quotationMark, quotationMark>>),
               BackSlash, <<BackSlash, BackSlash>>)

\* The column values of Init: string-like and numeric ones, present or NULL, and
\* byte slices (bytes as numbers).
ColValues ==
    {[tp |-> "String", valid |-> TRUE, str |-> v] :
        v \in {<<"a">>, <<quotationMark>>, <<BackSlash>>, <<"\n">>}}
    \cup {[tp |-> "String", valid |-> FALSE, str |-> <<>>],
          [tp |-> "Number", valid |-> TRUE, str |-> <<"5">>],
          [tp |-> "Number", valid |-> FALSE, str |-> <<>>],
          [tp |-> "Bytes", bytes |-> <<>>],
          [tp |-> "Bytes", bytes |-> <<222, 10>>]}

RowValues == UNION {[1..k -> ColValues] : k \in 0..MaxCols}

\* SQLTypeString.ToString, SQLTypeNumber.ToString, SQLTypeBytes.ToString.
ColToString(c) ==
    CASE c.tp = "String" ->
            IF c.valid THEN <<quotationMark>> \o escape(c.str) \o <<quotationMark>>
            ELSE NullText
      [] c.tp = "Number" -> IF c.valid THEN c.str ELSE NullText
      [] c.tp = "Bytes" -> <<"x", quotationMark>> \o Hex(c.bytes) \o <<quotationMark>>

\* The WriteToStringBuilder of the three column types, appending to buf;
\* globalEscape is backslashEscape{}.
ColWriteToStringBuilder(c, buf) ==
    CASE c.tp = "String" ->
            IF c.valid
            THEN BackslashEscape(c.str, buf \o <<quotationMark>>) \o <<quotationMark>>
            ELSE buf \o NullText
      [] c.tp = "Number" -> IF c.valid THEN buf \o c.str ELSE buf \o NullText
      [] c.tp = "Bytes" ->
            buf \o <<"x", quotationMark>> \o Hex(c.bytes) \o <<quotationMark>>

\* The loop of RowReceiverArr.ToString from column i on.
RECURSIVE ToStringLoop(_, _, _)
ToStringLoop(r, i, sb) ==
    IF i > Len(r) THEN sb
    ELSE ToStringLoop(r, i + 1,
            sb \o ColToString(r[i]) \o (IF i # Len(r) THEN <<",", " ">> ELSE <<>>))

\* RowReceiverArr.ToString
RowToString(r) == ToStringLoop(r, 1, <<"(">>) \o <<")">>

\* The loop of RowReceiverArr.WriteToStringBuilder from column i on.
RECURSIVE WriteToStringBuilderLoop(_, _, _)
WriteToStringBuilderLoop(r, i, buf) ==
    IF i > Len(r) THEN buf
    ELSE WriteToStringBuilderLoop(r, i + 1,
            ColWriteToStringBuilder(r[i], buf) \o (IF i # Len(r) THEN <<",">> ELSE <<>>))

\* RowReceiverArr.WriteToStringBuilder on an accumulator holding buf.
RowWriteToStringBuilder(r, buf) ==
    WriteToStringBuilderLoop(r, 1, buf \o <<"(">>) \o <<")">>

RowCalls ==
    {[fn |-> "row", arg |-> r, out |-> <<>>, done |-> FALSE] : r \in RowValues}

\* One row rendered in both forms.
RenderRow ==
    /\ call.fn = "row"
    /\ ~call.done
    /\ call' = [call EXCEPT !.out = [str |-> RowToString(call.arg),
                                     buf |-> RowWriteToStringBuilder(call.arg, <<>>)],
                            !.done = TRUE]
    /\ UNCHANGED <<pipeVars, lazy, bErr, bfpClosed, errVar, watch>>

\* ---------------------------------------------------------- MakeRowReceiver
dataTypeString ==
    {"CHAR", "NCHAR", "VARCHAR", "NVARCHAR", "CHARACTER", "VARCHARACTER",
     "TIMESTAMP", "DATETIME", "DATE", "TIME", "YEAR", "SQL_TSI_YEAR",
     "TEXT", "TINYTEXT", "MEDIUMTEXT", "LONGTEXT", "ENUM", "SET", "JSON"}

dataTypeNum ==
    {"INTEGER", "BIGINT", "TINYINT", "SMALLINT", "MEDIUMINT",
     "INT", "INT1", "INT2", "INT3", "INT8",
     "FLOAT", "REAL", "DOUBLE", "DOUBLE PRECISION",
     "DECIMAL", "NUMERIC", "FIXED", "BOOL", "BOOLEAN"}

dataTypeBin ==
    {"BLOB", "TINYBLOB", "MEDIUMBLOB", "LONGBLOB", "LONG", "BINARY", "VARBINARY", "BIT"}

\* The table without the loop over dataTypeBin.
colTypeRowReceiverMapNoBin(colTp) ==
    IF colTp \in dataTypeNum THEN "Number"
    ELSE IF colTp \in dataTypeString THEN "String"
    ELSE "missing"

\* colTypeRowReceiverMap[colTp] as init() fills it: the strings, then the
\* numbers, then the binaries, a later entry replacing an earlier one.
colTypeRowReceiverMap(colTp) ==
    IF colTp \in dataTypeBin THEN "Bytes"
    ELSE IF colTp \in dataTypeNum THEN "Number"
    ELSE IF colTp \in dataTypeString THEN "String"
    ELSE "missing"

\* SQLTypeStringMaker, SQLTypeNumberMaker, SQLTypeBytesMaker: the zero value of
\* the variant.
Maker(variant) ==
    IF variant = "Bytes" THEN [tp |-> "Bytes", bytes |-> <<>>]
    ELSE [tp |-> variant, valid |-> FALSE, str |-> <<>>]

\* MakeRowReceiver(colTypes): one receiver per column, String-like when the
\* table has no entry.
MakeRowReceiver(colTypes) ==
    [i \in 1..Len(colTypes) |->
        Maker(IF colTypeRowReceiverMap(colTypes[i]) = "missing" THEN "String"
              ELSE colTypeRowReceiverMap(colTypes[i]))]

\* The column type names of Init: names of each table, a name of no table, and
\* a table's name in lower case.
TypeNames == {"VARCHAR", "INT", "DOUBLE PRECISION", "BLOB", "BIT", "GEOMETRY", "int"}

MakeCalls ==
    {[fn |-> "MakeRowReceiver", arg |-> tps, out |-> <<>>, done |-> FALSE] :
        tps \in UNION {[1..k -> TypeNames] : k \in 0..MaxCols}}

\* One call of MakeRowReceiver, and the new row rendered into an empty
\* accumulator.
NewRowReceiver ==
    /\ call.fn = "MakeRowReceiver"
    /\ ~call.done
    /\ call' = [call EXCEPT
                  !.out = [row |-> MakeRowReceiver(call.arg),
                           buf |-> RowWriteToStringBuilder(MakeRowReceiver(call.arg), <<>>)],
                  !.done = TRUE]
    /\ UNCHANGED <<pipeVars, lazy, bErr, bfpClosed, errVar, watch>>

\* ------------------------------------------- the pure functions, one call each
PureInit ==
    /\ PipeIdle /\ LazyIdle /\ MutexIdle /\ BatchIdle
    /\ call \in EscapeCalls \cup WrapCalls \cup RowCalls \cup MakeCalls

PureNext == Escape \/ EscapeNoBackslash \/ WrapBackTicks \/ RenderRow \/ NewRowReceiver

PureSpec == PureInit /\ [][PureNext]_vars

\* ================================================= properties of the escapers
\* The body a call appended: its output without the content bf held before.
Appended == Drop(call.out, Len(call.arg.bf))

\* The escape sequence the backslash dialect prescribes for one byte.
EscapedByte(c) ==
    CASE c = NUL -> <<BackSlash, "0">>
      [] c = "\n" -> <<BackSlash, "n">>
      [] c = "\r" -> <<BackSlash, "r">>
      [] c = BackSlash -> <<BackSlash, BackSlash>>
      [] c = quotationMark -> <<BackSlash, quotationMark>>
      [] c = DoubleQuote -> <<BackSlash, DoubleQuote>>
      [] c = SUB -> <<BackSlash, "Z">>
      [] OTHER -> <<c>>

RECURSIVE EscapedBody(_)
EscapedBody(str) ==
    IF str = <<>> THEN <<>> ELSE EscapedByte(Head(str)) \o EscapedBody(Tail(str))

\* The byte a backslash followed by c stands for.
DecodedByte(c) ==
    CASE c = "0" -> NUL
      [] c = "n" -> "\n"
      [] c = "r" -> "\r"
      [] c = "Z" -> SUB
      [] OTHER -> c

\* The inverse mapping: a backslash and the byte after it decode to one byte.
RECURSIVE Unescape(_)
Unescape(body) ==
    IF body = <<>> THEN <<>>
    ELSE IF Head(body) = BackSlash /\ Len(body) >= 2
         THEN <<DecodedByte(body[2])>> \o Unescape(Tail(Tail(body)))
         ELSE <<Head(body)>> \o Unescape(Tail(body))

\* C12: backslashEscape.Escape keeps what the buffer held and appends a body in
\* which exactly the seven special bytes are replaced by a backslash and 0, n,
\* r, backslash, single quote, double quote, Z, every other byte is copied in
\* order, and decoding the body with the inverse mapping yields s.
C12_BackslashRoundTrip ==
    (call.fn = "backslashEscape" /\ call.done) =>
        /\ StartsWith(call.out, call.arg.bf)
        /\ Appended = EscapedBody(call.arg.s)
        /\ Unescape(Appended) = call.arg.s

\* A finished call on a string with a 0x1A, a plain byte and an escape letter,
\* appended after an opening quotation mark.
C12_Witness ==
    /\ call.fn = "backslashEscape"
    /\ call.done
    /\ call.arg.s = <<SUB, "a", "n">>
    /\ call.arg.bf = <<quotationMark>>
    /\ call.out = <<quotationMark, BackSlash, "Z", "a", "n">>

\* The number of bytes of str equal to c.
RECURSIVE Count(_, _)
Count(str, c) ==
    IF str = <<>> THEN 0
    ELSE (IF Head(str) = c THEN 1 ELSE 0) + Count(Tail(str), c)

\* C13: noBackslashEscape.Escape escapes only the single quote, by doubling
\* it; backslash and every other byte pass through unchanged, so the appended
\* body holds len(s) bytes plus one per single quote of s.
C13_OnlyQuoteDoubled ==
    (call.fn = "noBackslashEscape" /\ call.done) =>
        /\ StartsWith(call.out, call.arg.bf)
        /\ Appended = ReplaceAll(call.arg.s, quotationMark,
                                 <<quotationMark, quotationMark>>)
        /\ Len(Appended) = Len(call.arg.s) + Count(call.arg.s, quotationMark)

\* C14: wrapBackTicks returns the identifier unchanged exactly when it both
\* starts and ends with a backtick, and otherwise the identifier with one
\* backtick on each side.
C14_WrapUnlessWrapped ==
    (call.fn = "wrapBackTicks" /\ call.done) =>
        call.out = IF HasPrefix(call.arg, BackTick) /\ HasSuffix(call.arg, BackTick)
                   THEN call.arg
                   ELSE <<BackTick>> \o call.arg \o <<BackTick>>

\* The literal of one column as the Row Image prescribes it: NULL, the number's
\* text, the string between quotation marks, or the bytes in hexadecimal.
ColLiteral(c) == ColWriteToStringBuilder(c, <<>>)

RECURSIVE JoinLiterals(_)
JoinLiterals(r) ==
    IF r = <<>> THEN <<>>
    ELSE IF Len(r) = 1 THEN ColLiteral(r[1])
    ELSE ColLiteral(r[1]) \o <<",">> \o JoinLiterals(Tail(r))

\* C20: the two render forms of a row agree: ToString returns exactly what
\* WriteToStringBuilder appends to an empty accumulator, "(" then each
\* column's literal separated by "," then ")".
C20_RenderFormsAgree ==
    (call.fn = "row" /\ call.done) =>
        /\ call.out.str = call.out.buf
        /\ call.out.buf = <<"(">> \o JoinLiterals(call.arg) \o <<")">>

\* ======================================================== LazyStringWriter
\* The goroutines that share one LazyStringWriter, and the calls each makes.
NumCallers == 2
MaxWrites == 2

Callers == 1..NumCallers

\* A LazyStringWriter as buildLazyFileWriter returns it: the Once not yet
\* used, err nil, the file not opened, nothing written, no call in progress.
\* opens counts the runs of initRoutine, writes the calls of the underlying
\* StringWriter.WriteString, rets lists what each caller's calls returned.
NewLazy ==
    [once |-> "new", err |-> "nil", opens |-> 0, writes |-> 0,
     at |-> [c \in Callers |-> "idle"], rets |-> [c \in Callers |-> <<>>]]

\* sync.Once.Do runs f without the check of done.
DoRunsAlways(once) == TRUE

\* sync.Once.Do runs f only when done is still 0.
DoRuns(once) == once = "new"

\* A caller enters WriteString.
WriteString(c) ==
    /\ lazy.once # "none"
    /\ lazy.at[c] = "idle"
    /\ Len(lazy.rets[c]) < MaxWrites
    /\ lazy' = [lazy EXCEPT !.at[c] = "do"]
    /\ UNCHANGED <<pipeVars, call, bErr, bfpClosed, errVar, watch>>

\* l.Do(...): the first caller takes the Once and goes on to run f; a caller
\* that finds f running waits for it; a caller that finds it done passes.
OnceDo(c) ==
    /\ lazy.once # "none"
    /\ lazy.at[c] = "do"
    /\ IF DoRuns(lazy.once)
       THEN lazy' = [lazy EXCEPT !.once = "running", !.at[c] = "init"]
       ELSE /\ lazy.once = "done"
            /\ lazy' = [lazy EXCEPT !.at[c] = "check"]
    /\ UNCHANGED <<pipeVars, call, bErr, bfpClosed, errVar, watch>>

\* l.err = l.initRoutine(): os.OpenFile succeeds or fails; Do then marks the
\* Once done.
InitRoutine(c) ==
    /\ lazy.once # "none"
    /\ lazy.at[c] = "init"
    /\ \E e \in {"nil", "openErr"} :
        lazy' = [lazy EXCEPT !.err = e, !.opens = @ + 1, !.once = "done",
                             !.at[c] = "check"]
    /\ UNCHANGED <<pipeVars, call, bErr, bfpClosed, errVar, watch>>

\* if l.err != nil { return 0, fmt.Errorf("open file error: ...") }
CheckErr(c) ==
    /\ lazy.once # "none"
    /\ lazy.at[c] = "check"
    /\ IF lazy.err # "nil"
       THEN lazy' = [lazy EXCEPT !.at[c] = "idle",
                                 !.rets[c] = Append(@, "openError")]
       ELSE lazy' = [lazy EXCEPT !.at[c] = "write"]
    /\ UNCHANGED <<pipeVars, call, bErr, bfpClosed, errVar, watch>>

\* return l.StringWriter.WriteString(str): the underlying writer's result.
UnderlyingWrite(c) ==
    /\ lazy.once # "none"
    /\ lazy.at[c] = "write"
    /\ \E e \in {"nil", "writeErr"} :
        lazy' = [lazy EXCEPT !.writes = @ + 1, !.at[c] = "idle",
                             !.rets[c] = Append(@, e)]
    /\ UNCHANGED <<pipeVars, call, bErr, bfpClosed, errVar, watch>>

LazyInit ==
    /\ PipeIdle /\ CallIdle /\ MutexIdle /\ BatchIdle
    /\ lazy = NewLazy

LazyNext ==
    \E c \in Callers :
        \/ WriteString(c)
        \/ OnceDo(c)
        \/ InitRoutine(c)
        \/ CheckErr(c)
        \/ UnderlyingWrite(c)

LazySpec == LazyInit /\ [][LazyNext]_vars

\* A write attempt has been made: some caller is inside WriteString or has
\* returned from it.
Attempted == \E c \in Callers : lazy.at[c] # "idle" \/ lazy.rets[c] # <<>>

\* Some caller has passed l.Do.
PassedDo == \E c \in Callers : lazy.at[c] \in {"check", "write"} \/ lazy.rets[c] # <<>>

\* C15: for any WriteString calls on one LazyStringWriter, concurrent first
\* calls included, the open routine runs exactly once, on the first write
\* attempt and never before it; if the open failed, every WriteString call
\* returns an error and nothing is written to the underlying writer.
C15_OpenOnce ==
    lazy.once # "none" =>
        /\ lazy.opens <= 1
        /\ ~Attempted => lazy.opens = 0
        /\ PassedDo => lazy.opens = 1
        /\ lazy.err # "nil" =>
            /\ lazy.writes = 0
            /\ \A c \in Callers : \A i \in 1..Len(lazy.rets[c]) :
                    lazy.rets[c][i] = "openError"

\* The open failed and every caller has made a first and a later call.
C15_Witness ==
    /\ lazy.once = "done"
    /\ lazy.err = "openErr"
    /\ lazy.opens = 1
    /\ \A c \in Callers : Len(lazy.rets[c]) >= 2

\* ================================== the mutex-based writerPipe and WriteInsert
\* (writer_util.go, lines 339-368 and 388-471)
\* The state this variant never touches.
mutexRest == <<call, lazy, errVar, watch, errCh, ctxDone, wgDone>>

\* if b.err != nil { b.Lock(); b.err = err; b.Unlock() }: the value of b.err
\* afterwards.
Record(recorded, err) == IF recorded # "nil" THEN err ELSE recorded

\* Lines 388-415: an empty stream returns at once; otherwise the buffer is
\* grown, the pipes are made, wp.Run is started and the special comments are
\* written into the buffer.
MStart ==
    /\ pc = "start"
    /\ IF ~RowsHasNext(tblIR)
       THEN /\ pc' = "returned"
            /\ UNCHANGED <<bf, mem, rpc>>
       ELSE LET w == WriteComments([arr |-> 1, len |-> 0, cap |-> lengthLimit],
                                   <<<<>>>>, tblIR.comments)
            IN  /\ bf' = w.bf
                /\ mem' = w.mem
                /\ rpc' = "range"
                /\ pc' = "group"
    /\ UNCHANGED <<mutexRest, tblIR, gi, ri, counter, ret, input, inputClosed, closed, s,
                   errOccurs, sent, sink, bErr, bfpClosed>>

\* Lines 430-434: the head of the group loop.
MGroup ==
    /\ pc = "group"
    /\ IF HasNextSQLRowIter(tblIR, gi)
       THEN LET w == BufWrite(bf, mem, insertStatementPrefix)
            IN  /\ bf' = w.bf
                /\ mem' = w.mem
                /\ gi' = gi + 1
                /\ ri' = 0
                /\ pc' = "row"
       ELSE /\ pc' = "final"
            /\ UNCHANGED <<bf, mem, gi, ri>>
    /\ UNCHANGED <<mutexRest, tblIR, counter, ret, input, inputClosed, closed, rpc, s,
                   errOccurs, sent, sink, bErr, bfpClosed>>

\* Lines 434-441: the head of the row loop, fileRowIter.Next(row, true), which
\* may fail, and row.WriteToStringBuilder.
MRow ==
    /\ pc = "row"
    /\ IF HasNext(tblIR, gi, ri)
       THEN \E ok \in BOOLEAN :
               IF ok
               THEN LET w == BufWrite(bf, mem,
                                 RowText(RowCols(tblIR.rows[gi][ri + 1], counter + 1)))
                    IN  /\ bf' = w.bf
                        /\ mem' = w.mem
                        /\ counter' = counter + 1
                        /\ ri' = ri + 1
                        /\ pc' = "split"
                        /\ ret' = ret
               ELSE /\ ret' = "decodeErr"
                    /\ pc' = "defer"
                    /\ UNCHANGED <<bf, mem, counter, ri>>
       ELSE /\ pc' = "group"
            /\ UNCHANGED <<bf, mem, counter, ri, ret>>
    /\ UNCHANGED <<mutexRest, tblIR, gi, input, inputClosed, closed, rpc, s, errOccurs,
                   sent, sink, bErr, bfpClosed>>

\* Lines 443-449: the splitter after the row just rendered.
MSplit ==
    /\ pc = "split"
    /\ LET w == BufWrite(bf, mem, Separator(tblIR, gi, ri))
       IN  /\ bf' = w.bf
           /\ mem' = w.mem
    /\ pc' = "check"
    /\ UNCHANGED <<mutexRest, tblIR, gi, ri, counter, ret, input, inputClosed, closed, rpc,
                   s, errOccurs, sent, sink, bErr, bfpClosed>>

\* Line 451.
MCheck ==
    /\ pc = "check"
    /\ pc' = IF NeedFlush(bf.len) THEN "send" ELSE "poll"
    /\ UNCHANGED <<mutexRest, tblIR, bf, mem, gi, ri, counter, ret, input, inputClosed,
                   closed, rpc, s, errOccurs, sent, sink, bErr, bfpClosed>>

\* wp.input <- bf.Bytes(); bf.Reset().  The send blocks while the queue is full.
MSendChunk(next) ==
    /\ Len(input) < InputCap
    /\ input' = Append(input, [arr |-> Bytes(bf).arr, len |-> Bytes(bf).len,
                               seq |-> sent + 1])
    /\ sent' = sent + 1
    /\ bf' = Reset(bf)
    /\ pc' = next
    /\ UNCHANGED <<mutexRest, tblIR, mem, gi, ri, counter, ret, inputClosed, closed, rpc, s,
                   errOccurs, sink, bErr, bfpClosed>>

\* Lines 452-453.
MSend ==
    /\ pc = "send"
    /\ MSendChunk("poll")

\* Lines 455-457: err = wp.Error(), the value of b.err read under the lock.
MPoll ==
    /\ pc = "poll"
    /\ ret' = bErr
    /\ pc' = IF bErr # "nil" THEN "defer" ELSE "row"
    /\ UNCHANGED <<mutexRest, tblIR, bf, mem, gi, ri, counter, input, inputClosed, closed,
                   rpc, s, errOccurs, sent, sink, bErr, bfpClosed>>

\* Line 463.
MFinal ==
    /\ pc = "final"
    /\ pc' = IF bf.len > 0 THEN "sendLast" ELSE "close"
    /\ UNCHANGED <<mutexRest, tblIR, bf, mem, gi, ri, counter, ret, input, inputClosed,
                   closed, rpc, s, errOccurs, sent, sink, bErr, bfpClosed>>

\* Lines 464-466.
MSendLast ==
    /\ pc = "sendLast"
    /\ MSendChunk("close")

\* Line 468: close(wp.input).
MClose ==
    /\ pc = "close"
    /\ inputClosed' = TRUE
    /\ pc' = "wait"
    /\ UNCHANGED <<mutexRest, tblIR, bf, mem, gi, ri, counter, ret, input, closed, rpc, s,
                   errOccurs, sent, sink, bErr, bfpClosed>>

\* Line 469: <-wp.closed.
MWait ==
    /\ pc = "wait"
    /\ closed
    /\ pc' = "result"
    /\ UNCHANGED <<mutexRest, tblIR, bf, mem, gi, ri, counter, ret, input, inputClosed,
                   closed, rpc, s, errOccurs, sent, sink, bErr, bfpClosed>>

\* Line 470: return wp.Error().
MResult ==
    /\ pc = "result"
    /\ ret' = bErr
    /\ pc' = "defer"
    /\ UNCHANGED <<mutexRest, tblIR, bf, mem, gi, ri, counter, input, inputClosed, closed,
                   rpc, s, errOccurs, sent, sink, bErr, bfpClosed>>

\* Line 408: the deferred close(bfp.input), after which WriteInsert has
\* returned.  Nothing on a return path closes wp.input.
MDefer ==
    /\ pc = "defer"
    /\ bfpClosed' = TRUE
    /\ pc' = "returned"
    /\ UNCHANGED <<mutexRest, tblIR, bf, mem, gi, ri, counter, ret, input, inputClosed,
                   closed, rpc, s, errOccurs, sent, sink, bErr>>

\* Line 351: for s := range b.input, a chunk received.
MRunRecv ==
    /\ rpc = "range"
    /\ input # <<>>
    /\ input' = Recv(input).rest
    /\ s' = Recv(input).s
    /\ rpc' = "test"
    /\ UNCHANGED <<mutexRest, tblIR, inputClosed, closed, errOccurs, sent, sink, bErr,
                   bfpClosed>>
    /\ UNCHANGED producerVars

\* Line 351: the queue closed and drained ends the loop.
MRunRecvClosed ==
    /\ rpc = "range"
    /\ input = <<>>
    /\ inputClosed
    /\ rpc' = "return"
    /\ UNCHANGED <<mutexRest, tblIR, input, inputClosed, closed, s, errOccurs, sent, sink,
                   bErr, bfpClosed>>
    /\ UNCHANGED producerVars

\* Lines 352-354: if b.err != nil { return }
MRunTest ==
    /\ rpc = "test"
    /\ rpc' = IF bErr # "nil" THEN "return" ELSE "write"
    /\ UNCHANGED <<mutexRest, tblIR, input, inputClosed, closed, s, errOccurs, sent, sink,
                   bErr, bfpClosed>>
    /\ UNCHANGED producerVars

\* Line 355: err := writeBytes(b.w, s), on the memory s refers to as it is when
\* the write runs.
MRunWrite ==
    /\ rpc = "write"
    /\ \E ok \in BOOLEAN :
          /\ sink' = Append(sink, [seq |-> s.seq, data |-> Deref(mem, s), ok |-> ok])
          /\ errOccurs' = ~ok
    /\ s' = NoChunk
    /\ rpc' = "record"
    /\ UNCHANGED <<mutexRest, tblIR, input, inputClosed, closed, sent, bErr, bfpClosed>>
    /\ UNCHANGED producerVars

\* Lines 356-360.
MRunRecord ==
    /\ rpc = "record"
    /\ bErr' = Record(bErr, IF errOccurs THEN "writeErr" ELSE "nil")
    /\ errOccurs' = FALSE
    /\ rpc' = "range"
    /\ UNCHANGED <<mutexRest, tblIR, input, inputClosed, closed, s, sent, sink, bfpClosed>>
    /\ UNCHANGED producerVars

\* Line 350: the deferred close(b.closed) as Run returns; the goroutine ends.
MRunReturn ==
    /\ rpc = "return"
    /\ closed' = TRUE
    /\ rpc' = "exited"
    /\ UNCHANGED <<mutexRest, tblIR, input, inputClosed, s, errOccurs, sent, sink, bErr,
                   bfpClosed>>
    /\ UNCHANGED producerVars

MProducer ==
    \/ MStart \/ MGroup \/ MRow \/ MSplit \/ MCheck \/ MSend \/ MPoll
    \/ MFinal \/ MSendLast \/ MClose \/ MWait \/ MResult \/ MDefer

MRunner ==
    \/ MRunRecv \/ MRunRecvClosed \/ MRunTest \/ MRunWrite \/ MRunRecord \/ MRunReturn

MutexNext == MProducer \/ MRunner

\* The streams of Init of at most MaxRows rows.
MutexInit == Init /\ tblIR.rows # LongStream

MutexSpec == MutexInit /\ [][MutexNext]_vars

\* The Go scheduler runs every goroutine that can take a step.
MutexFairSpec == MutexSpec /\ WF_vars(MProducer) /\ WF_vars(MRunner)

\* Some write of Run has failed and its outcome has been handled (lines 356-360
\* have run for it).
WriteFailed == (\E i \in 1..Len(sink) : ~sink[i].ok) /\ rpc # "record"

\* C16: in the mutex-based writerPipe, when a sink write performed by Run
\* fails, the pipe records the error, so that a later Error() returns it, and
\* Run performs no further sink write after the failure.
C16_WriteErrorRecorded ==
    /\ WriteFailed => bErr # "nil"
    /\ \A i \in 1..(Len(sink) - 1) : sink[i].ok

\* C17: whenever the mutex-based WriteInsert has returned with Run started,
\* Run terminates: it is never left blocked receiving from an input queue that
\* nobody will close.
C17_RunTerminates == (Returned /\ rpc # "idle") ~> (rpc = "exited")

\* ===================================== the WriteBatch-based WriteInsert
\* (src/unnamed/part_000, lines 36-107).  Of the WriteBatch only what WriteInsert
\* uses appears here: Write accepts text (sent counts the calls), the error
\* channel may deliver one write error (errOccurs: it has), and closed is closed
\* when Run ends.
\* The state this variant never touches.
batchRest == <<call, lazy, bErr, bfpClosed, bf, mem, input, inputClosed, wgDone, s, sink>>

\* Lines 37-53: an empty stream returns at once; otherwise the context and the
\* batch are made and batch.Run and the watching goroutine are started.
BStart ==
    /\ pc = "start"
    /\ IF ~RowsHasNext(tblIR)
       THEN /\ pc' = "returned"
            /\ UNCHANGED <<rpc, watch>>
       ELSE /\ rpc' = "running"
            /\ watch' = "select"
            /\ pc' = "comment"
    /\ UNCHANGED <<batchRest, tblIR, gi, ri, counter, ret, closed, errCh, ctxDone,
                   errOccurs, sent, errVar>>

\* Lines 56-57: the next special comment, if any, is written to the batch.
BComment ==
    /\ pc = "comment"
    /\ IF sent < tblIR.comments
       THEN /\ sent' = sent + 1
            /\ pc' = "commentPoll"
       ELSE /\ pc' = "group"
            /\ sent' = sent
    /\ UNCHANGED <<batchRest, tblIR, gi, ri, counter, ret, closed, errCh, ctxDone,
                   errOccurs, errVar, rpc, watch>>

\* select { case <-ctx.Done(): return err; default: }
AfterDone(done, next) == IF done THEN "defer" ELSE next

\* Lines 58-62.
BCommentPoll ==
    /\ pc = "commentPoll"
    /\ pc' = AfterDone(ctxDone, "comment")
    /\ ret' = IF pc' = "defer" THEN errVar ELSE ret
    /\ UNCHANGED <<batchRest, tblIR, gi, ri, counter, closed, errCh, ctxDone, errOccurs,
                   sent, errVar, rpc, watch>>

\* Lines 70-73: the head of the group loop writes the prefix to the batch.
BGroup ==
    /\ pc = "group"
    /\ IF HasNextSQLRowIter(tblIR, gi)
       THEN /\ sent' = sent + 1
            /\ gi' = gi + 1
            /\ ri' = 0
            /\ pc' = "row"
       ELSE /\ pc' = "final"
            /\ UNCHANGED <<sent, gi, ri>>
    /\ UNCHANGED <<batchRest, tblIR, counter, ret, closed, errCh, ctxDone, errOccurs,
                   errVar, rpc, watch>>

\* Lines 74-75: the head of the row loop and err = fileRowIter.Next(row), an
\* assignment to the variable the watching goroutine assigns too.
BDecode ==
    /\ pc = "row"
    /\ IF HasNext(tblIR, gi, ri)
       THEN /\ \E e \in {"nil", "decodeErr"} : errVar' = e
            /\ pc' = "errTest"
       ELSE /\ pc' = "group"
            /\ errVar' = errVar
    /\ UNCHANGED <<batchRest, tblIR, gi, ri, counter, ret, closed, errCh, ctxDone,
                   errOccurs, sent, rpc, watch>>

\* Lines 75-78: err != nil, and return err.
BErrTest ==
    /\ pc = "errTest"
    /\ IF errVar # "nil"
       THEN /\ ret' = errVar
            /\ pc' = "defer"
       ELSE /\ pc' = "write"
            /\ ret' = ret
    /\ UNCHANGED <<batchRest, tblIR, gi, ri, counter, closed, errCh, ctxDone, errOccurs,
                   sent, errVar, rpc, watch>>

\* Lines 80-89: the row and its splitter are written to the batch.
BWrite ==
    /\ pc = "write"
    /\ sent' = sent + 2
    /\ counter' = counter + 1
    /\ ri' = ri + 1
    /\ pc' = "poll"
    /\ UNCHANGED <<batchRest, tblIR, gi, ret, closed, errCh, ctxDone, errOccurs, errVar,
                   rpc, watch>>

\* Lines 90-94.
BPoll ==
    /\ pc = "poll"
    /\ pc' = AfterDone(ctxDone, "row")
    /\ ret' = IF pc' = "defer" THEN errVar ELSE ret
    /\ UNCHANGED <<batchRest, tblIR, gi, ri, counter, closed, errCh, ctxDone, errOccurs,
                   sent, errVar, rpc, watch>>

\* Lines 101-106: batch.closed is closed, or a minute has passed.
BFinal ==
    /\ pc = "final"
    /\ \/ /\ closed
          /\ ret' = errVar
          /\ errVar' = errVar
       \/ /\ errVar' = "timeout"
          /\ ret' = "timeout"
    /\ pc' = "defer"
    /\ UNCHANGED <<batchRest, tblIR, gi, ri, counter, closed, errCh, ctxDone, errOccurs,
                   sent, rpc, watch>>

\* Line 43: the deferred cancel(), after which WriteInsert has returned.
BDefer ==
    /\ pc = "defer"
    /\ ctxDone' = TRUE
    /\ pc' = "returned"
    /\ UNCHANGED <<batchRest, tblIR, gi, ri, counter, ret, closed, errCh, errOccurs, sent,
                   errVar, rpc, watch>>

\* Line 49: case err = <-batch.Error().
WatchRecv ==
    /\ watch = "select"
    /\ errCh # <<>>
    /\ errVar' = Head(errCh)
    /\ errCh' = Tail(errCh)
    /\ watch' = "cancel"
    /\ UNCHANGED <<batchRest, tblIR, pc, gi, ri, counter, ret, closed, ctxDone, errOccurs,
                   sent, rpc>>

\* Line 50: cancel().
WatchCancel ==
    /\ watch = "cancel"
    /\ ctxDone' = TRUE
    /\ watch' = "done"
    /\ UNCHANGED <<batchRest, tblIR, pc, gi, ri, counter, ret, closed, errCh, errOccurs,
                   sent, errVar, rpc>>

\* Line 51: case <-ctx.Done().
WatchQuit ==
    /\ watch = "select"
    /\ ctxDone
    /\ watch' = "quit"
    /\ UNCHANGED <<batchRest, tblIR, pc, gi, ri, counter, ret, closed, errCh, ctxDone,
                   errOccurs, sent, errVar, rpc>>

\* batch.Run fails to write what it was given and reports the error on the
\* channel batch.Error() returns.
BatchError ==
    /\ rpc = "running"
    /\ sent > 0
    /\ ~errOccurs
    /\ Len(errCh) < ErrCap
    /\ errCh' = Append(errCh, "writeErr")
    /\ errOccurs' = TRUE
    /\ UNCHANGED <<batchRest, tblIR, pc, gi, ri, counter, ret, closed, ctxDone, sent,
                   errVar, rpc, watch>>

\* batch.Run ends and batch.closed is closed.
BatchClose ==
    /\ rpc = "running"
    /\ closed' = TRUE
    /\ rpc' = "exited"
    /\ UNCHANGED <<batchRest, tblIR, pc, gi, ri, counter, ret, errCh, ctxDone, errOccurs,
                   sent, errVar, watch>>

BProducer ==
    \/ BStart \/ BComment \/ BCommentPoll \/ BGroup \/ BDecode \/ BErrTest \/ BWrite
    \/ BPoll \/ BFinal \/ BDefer

Watcher == WatchRecv \/ WatchCancel \/ WatchQuit

Batch == BatchError \/ BatchClose

BatchNext == BProducer \/ Watcher \/ Batch

BatchInit == Init /\ tblIR.rows # LongStream

BatchSpec == BatchInit /\ [][BatchNext]_vars

\* C18: in the WriteBatch-based WriteInsert, if the batch reported a write
\* error on its error channel and the watching goroutine received it and
\* cancelled the context, WriteInsert returns a non-nil error.
C18_BatchErrorReturned == (Returned /\ watch = "done") => ret # "nil"

\* ===================================== backpressure of the context-based pipe
\* WriteInsert is at a send into wp.input.
AtSend == pc \in {"send", "sendLast"}

\* C21: the input queue never holds more than 8 chunks; an enqueue attempted
\* while 8 chunks are queued does not complete until Run has dequeued one, and
\* an enqueue completes once there is room.
C21_Backpressure ==
    /\ [](Len(input) <= InputCap)
    /\ [][(sent' # sent) => (Len(input) < InputCap /\ Len(input') = Len(input) + 1)]_vars
    /\ [][(AtSend /\ Len(input) = InputCap /\ Len(input') < InputCap) =>
            (sent' = sent /\ AtSend')]_vars
    /\ (AtSend ~> ~AtSend)

\* The queue is full again with WriteInsert at a send, after more chunks were
\* enqueued than the queue holds: an earlier send went through once Run had
\* made room.
C21_Witness == pc = "send" /\ Len(input) = InputCap /\ sent > InputCap

\* ============================================ the chunks of the context-based pipe
\* The chunk the step has enqueued.
Enqueued == input'[Len(input')]

\* WriteInsert is past its last send.
PastSends == pc \in {"close", "wait", "result", "defer", "join", "returned"}

\* C23: every chunk enqueued is non-empty and every chunk but the last one
\* enqueued holds at least lengthLimit; a threshold flush happens after a row
\* exactly when the accumulator holds at least lengthLimit at that point; the
\* accumulator is empty right after each hand-off.
C23_ChunkSizes ==
    /\ [][(sent' # sent) =>
            /\ Len(input') = Len(input) + 1
            /\ Enqueued.len > 0
            /\ Enqueued.len = bf.len
            /\ bf'.len = 0
            /\ (pc = "send" /\ Enqueued.len >= lengthLimit)
                    \/ (pc = "sendLast" /\ pc' = "close")]_vars
    /\ [][PastSends => (sent' = sent /\ PastSends')]_vars
    /\ [][(pc = "check" /\ pc' # pc) =>
            ((pc' = "send") <=> (bf.len >= lengthLimit))]_vars
    /\ [][(pc' = "send" /\ pc # "send") => pc = "check"]_vars

\* A threshold flush and then a final chunk shorter than the threshold have
\* been enqueued, the final one still queued.
C23_Witness ==
    /\ pc = "close"
    /\ sent >= 2
    /\ input # <<>>
    /\ input[Len(input)].len < lengthLimit
    /\ input[Len(input)].seq = sent
    /\ bf.len = 0

\* ================================================ properties of the Column Codec
\* Two lowercase hexadecimal digits for one byte.
HexPair(b) ==
    LET d(n) == CASE n < 10 -> Digits[n + 1]
                  [] n = 10 -> "a" [] n = 11 -> "b" [] n = 12 -> "c"
                  [] n = 13 -> "d" [] n = 14 -> "e" [] n = 15 -> "f"
    IN  <<d(b \div 16), d(b % 16)>>

RECURSIVE HexPairs(_)
HexPairs(bs) == IF bs = <<>> THEN <<>> ELSE HexPair(Head(bs)) \o HexPairs(Tail(bs))

\* The literal the Column Codec prescribes for a column value.
CodecLiteral(c) ==
    CASE c.tp = "String" ->
            IF c.valid THEN <<"'">> \o EscapedBody(c.str) \o <<"'">>
            ELSE <<"N", "U", "L", "L">>
      [] c.tp = "Number" -> IF c.valid THEN c.str ELSE <<"N", "U", "L", "L">>
      [] c.tp = "Bytes" -> <<"x", "'">> \o HexPairs(c.bytes) \o <<"'">>

RECURSIVE CodecRow(_)
CodecRow(r) ==
    IF r = <<>> THEN <<>>
    ELSE CodecLiteral(Head(r)) \o (IF Len(r) > 1 THEN <<",">> ELSE <<>>) \o CodecRow(Tail(r))

\* The variant the static type-name table prescribes for a type name.
CodecVariant(colTp) ==
    IF colTp \in {"INTEGER", "BIGINT", "TINYINT", "SMALLINT", "MEDIUMINT", "INT", "INT1",
                  "INT2", "INT3", "INT8", "FLOAT", "REAL", "DOUBLE", "DOUBLE PRECISION",
                  "DECIMAL", "NUMERIC", "FIXED", "BOOL", "BOOLEAN"}
    THEN "Number"
    ELSE IF colTp \in {"BLOB", "TINYBLOB", "MEDIUMBLOB", "LONGBLOB", "LONG", "BINARY",
                       "VARBINARY", "BIT"}
    THEN "Bytes"
    ELSE "String"

\* C22: the buffer render of a column is NULL or the escaped body between
\* single quotes (String-like), NULL or the stored bytes verbatim (Numeric),
\* x' then two lowercase hex digits per byte then ' (Binary); MakeRowReceiver
\* selects the variant per column in declaration order from the type-name
\* table, String-like for an unrecognized name.
C22_ColumnCodec ==
    /\ (call.fn = "row" /\ call.done) =>
            call.out.buf = <<"(">> \o CodecRow(call.arg) \o <<")">>
    /\ (call.fn = "MakeRowReceiver" /\ call.done) =>
            /\ Len(call.out.row) = Len(call.arg)
            /\ \A i \in 1..Len(call.arg) : call.out.row[i].tp = CodecVariant(call.arg[i])
            /\ call.out.buf = <<"(">> \o CodecRow(call.out.row) \o <<")">>

\* A row made for an unrecognized type name and a binary one, rendered before
\* any decode: an absent string and zero-length bytes.
C22_Witness ==
    /\ call.fn = "MakeRowReceiver"
    /\ call.done
    /\ call.arg = <<"GEOMETRY", "BLOB">>
    /\ call.out.row[1].tp = "String"
    /\ call.out.row[2].tp = "Bytes"
    /\ call.out.buf = <<"(", "N", "U", "L", "L", ",", "x", "'", "'", ")">>

====
